---- MODULE Spec2Model ----
(***************************************************************************)
(* The in-memory feature store of src/src/feature_store.py: Feature        *)
(* (compute, validation, current values, history), FeatureGroup            *)
(* (add_feature, compute_all) and FeatureStore (registry and reads).       *)
(*                                                                         *)
(* A Python Optional is a sequence of length 0 (None) or 1 (a value), so   *)
(* that None compares with every value.  A dict whose order matters is a   *)
(* sequence; a dict whose order is never observed is a function.           *)
(***************************************************************************)
EXTENDS Integers, Sequences, FiniteSets, TLC

VARIABLES
    values,          \* Feature._values of each feature object: entity_id -> value
    history,         \* Feature._history of each feature object: list of entries
    features,        \* FeatureGroup.features of each group object, in dict order
    store_features,  \* FeatureStore.features: list of [id, feature], in dict order
    feature_groups,  \* FeatureStore.feature_groups: list of group objects, in dict order
    registry,        \* FeatureStore._registry: list of [id, metadata, registered_at]
    now,             \* what datetime.now() returns
    lifecycle,       \* metadata.status and metadata.updated_at of each feature object
    threads,         \* the call each thread is in, its position and its locals
    online_store,    \* the online store the serving API reads: key -> field map
    offline_store,   \* the offline store: the records ingested, in order
    last             \* the last call and what it returned or raised

\* the two stores behind ingest_features and the online read of a group
stores == <<online_store, offline_store>>

vars == <<values, history, features, store_features, feature_groups, registry, now,
          lifecycle, threads, online_store, offline_store, last>>

----------------------------------------------------------------------------
(* Bounds of the exploration *)

\* the largest number of history entries, over all features together
MaxLog == 2
\* the largest number of features held by the groups, over all groups together
MaxGroupFeatures == 2
\* the largest number of features registered in the store
MaxRegistered == 3
\* the latest instant of the clock
MaxClock == 2

----------------------------------------------------------------------------
(* Python values *)

Null == << >>
Some(v) == <<v>>

\* bool(x) of an Optional collection: None and the empty collection are falsy
Truthy(opt) == opt # Null /\ opt[1] # {}

Range(s) == {s[i] : i \in 1..Len(s)}

\* dict.get(key) on a source record (a function from field names to numbers)
DictGet(d, key) == IF key \in DOMAIN d THEN Some(d[key]) ELSE Null

----------------------------------------------------------------------------
(* The objects the calls are made on *)

EntityIds == {"CUST001", "CUST002"}

\* FeatureValidation(min_value, max_value, allowed_values, not_null)
FeatureValidation(mn, mx, allowed, nn) ==
    [min_value |-> mn, max_value |-> mx, allowed_values |-> allowed, not_null |-> nn]

\* FeatureMetadata reduced to the fields the operations read
FeatureMetadata(n, e, v) == [name |-> n, entity |-> e, version |-> v]

\* Feature.__init__: validation defaults to FeatureValidation()
Feature(md, tr, vl) ==
    [metadata |-> md, transformation |-> tr,
     validation |-> IF vl = Null THEN FeatureValidation(Null, Null, Null, TRUE) ELSE vl[1]]

\* FeatureTransformation reduced to transformation_fn: None or the name of a function
FeatureTransformation(fn) == [transformation_fn |-> fn]

\* The feature objects: the two numerical features of example_usage, and three more
\* named total_purchases: one with the same name, entity and version (nullable, with
\* a transformation that has only an sql_query), one of another version and one of
\* another entity, both with the default validation.  The last two have a colon
\* in the name or in the entity, and name, entity and version that differ from
\* each other's.
FeatureObjects ==
    [total_purchases_feature |->
        Feature(FeatureMetadata("total_purchases", "customer", "1.0.0"), Null,
                Some(FeatureValidation(Some(0), Null, Null, TRUE))),
     avg_purchase_value_feature |->
        Feature(FeatureMetadata("avg_purchase_value", "customer", "1.0.0"),
                Some(FeatureTransformation(Some("avg_fn"))),
                Some(FeatureValidation(Some(0), Null, Null, TRUE))),
     total_purchases_nullable |->
        Feature(FeatureMetadata("total_purchases", "customer", "1.0.0"),
                Some(FeatureTransformation(Null)),
                Some(FeatureValidation(Null, Some(2), Null, FALSE))),
     total_purchases_v2 |->
        Feature(FeatureMetadata("total_purchases", "customer", "2.0.0"), Null, Null),
     product_purchases |->
        Feature(FeatureMetadata("total_purchases", "product", "1.0.0"), Null, Null),
     colon_in_name |->
        Feature(FeatureMetadata("orders:total", "shop", "1.0.0"), Null, Null),
     colon_in_entity |->
        Feature(FeatureMetadata("orders", "total:shop", "1.0.0"), Null, Null)]

FeatureIds == DOMAIN FeatureObjects

\* the features without a colon in their metadata
PlainFeatures == FeatureIds \ {"colon_in_name", "colon_in_entity"}

FeatureType == {"numerical", "categorical", "boolean", "timestamp", "text", "embedding"}

\* metadata.feature_type of each feature object, an argument without default: the
\* features of customers are NUMERICAL, the one of products is CATEGORICAL
FeatureTypeArgument ==
    [f \in FeatureIds |-> IF f = "product_purchases" THEN "categorical" ELSE "numerical"]

FeatureStatus == {"draft", "active", "deprecated", "archived"}

\* The status argument each feature object is constructed with: the two of the
\* example are made ACTIVE, the others are constructed without one
StatusArgument ==
    [f \in FeatureIds |->
        IF f \in {"total_purchases_feature", "avg_purchase_value_feature"}
        THEN Some("active") ELSE Null]

\* ConstructedStatus with ARCHIVED as the default of the dataclass
ConstructedStatus_DefaultArchived ==
    [f \in FeatureIds |->
        IF StatusArgument[f] = Null THEN "archived" ELSE StatusArgument[f][1]]

\* metadata.status as each feature object is constructed: the argument, or the
\* default of the dataclass
ConstructedStatus ==
    [f \in FeatureIds |->
        IF StatusArgument[f] = Null THEN "draft" ELSE StatusArgument[f][1]]

\* FeatureGroup.__init__: name and entity of each group object
GroupObjects ==
    [customer_fg |-> [name |-> "customer_features", entity |-> "customer"],
     customer_fg_again |-> [name |-> "customer_features", entity |-> "customer"],
     customer_extra_fg |-> [name |-> "customer_extra", entity |-> "customer"]]

GroupIds == DOMAIN GroupObjects

\* The raw records handed to compute and compute_all
SourceRecords ==
    { [total_spent |-> 6, total_purchases |-> 2],
      [total_spent |-> -4, total_purchases |-> 1],
      [total_spent |-> 6, total_purchases |-> -2],
      [total_spent |-> 6] }

----------------------------------------------------------------------------
(* Feature *)

\* The lambda of avg_purchase_value: data["total_spent"] / data["total_purchases"]
\* if data["total_purchases"] > 0 else 0.  A missing key raises KeyError.  The
\* records of SourceRecords divide exactly.
AvgFn(data) ==
    IF "total_purchases" \notin DOMAIN data
    THEN [exc |-> "KeyError", value |-> Null]
    ELSE IF data["total_purchases"] > 0
         THEN IF "total_spent" \notin DOMAIN data
              THEN [exc |-> "KeyError", value |-> Null]
              ELSE [exc |-> "", value |-> Some(data["total_spent"] \div data["total_purchases"])]
         ELSE [exc |-> "", value |-> Some(0)]

\* The call of a transformation function by its name
ApplyFn(fn, data) == CASE fn = "avg_fn" -> AvgFn(data)

\* ComputeValue with the test "self.transformation" alone: a transformation that
\* has no function is called all the same
ComputeValue_CallsMissingFn(f, source_data) ==
    LET self == FeatureObjects[f] IN
    IF self.transformation # Null
    THEN IF self.transformation[1].transformation_fn # Null
         THEN ApplyFn(self.transformation[1].transformation_fn[1], source_data)
         ELSE [exc |-> "TypeError", value |-> Null]
    ELSE [exc |-> "", value |-> DictGet(source_data, self.metadata.name)]

\* Feature.compute, the choice of the value
ComputeValue(f, source_data) ==
    LET self == FeatureObjects[f] IN
    IF self.transformation # Null /\ self.transformation[1].transformation_fn # Null
    THEN ApplyFn(self.transformation[1].transformation_fn[1], source_data)
    ELSE [exc |-> "", value |-> DictGet(source_data, self.metadata.name)]

\* Feature._validate_value
ValidateValue(validation, value) ==
    IF value = Null /\ validation.not_null
    THEN FALSE
    ELSE IF value # Null
         THEN IF validation.min_value # Null /\ value[1] < validation.min_value[1]
              THEN FALSE
              ELSE IF validation.max_value # Null /\ value[1] > validation.max_value[1]
                   THEN FALSE
                   ELSE IF Truthy(validation.allowed_values)
                           /\ value[1] \notin validation.allowed_values[1]
                        THEN FALSE
                        ELSE TRUE
         ELSE TRUE

\* DictSet with the keys the dict had before dropped
DictSet_DropsOtherKeys(d, key, v) == [k \in {key} |-> v]

\* DictSet that leaves a key that is set as it is
DictSet_KeepsExisting(d, key, v) ==
    [k \in DOMAIN d \cup {key} |-> IF k \in DOMAIN d THEN d[k] ELSE v]

\* dict[key] = v
DictSet(d, key, v) == [k \in DOMAIN d \cup {key} |-> IF k = key THEN v ELSE d[k]]

\* Feature._log_computation: the entry appended to _history
LogEntry(f, entity_id, value, t) ==
    [entity_id |-> entity_id, value |-> value, timestamp |-> t,
     version |-> FeatureObjects[f].metadata.version]

\* FeatureCompute with the value stored before it is validated
FeatureCompute_StoresBeforeValidating(st, f, entity_id, source_data, t) ==
    LET c == ComputeValue(f, source_data)
        stored == [st.values EXCEPT ![f] = DictSet(@, entity_id, c.value)]
    IN
    IF c.exc # ""
    THEN [exc |-> c.exc, value |-> Null, values |-> st.values, history |-> st.history]
    ELSE IF ~ValidateValue(FeatureObjects[f].validation, c.value)
         THEN [exc |-> "ValueError", value |-> c.value,
               values |-> stored, history |-> st.history]
         ELSE [exc |-> "", value |-> c.value, values |-> stored,
               history |-> [st.history EXCEPT
                              ![f] = Append(@, LogEntry(f, entity_id, c.value, t))]]

\* FeatureCompute with _values replaced by a dict of the one entity
FeatureCompute_ForgetsOtherEntities(st, f, entity_id, source_data, t) ==
    LET c == ComputeValue(f, source_data) IN
    IF c.exc # ""
    THEN [exc |-> c.exc, value |-> Null, values |-> st.values, history |-> st.history]
    ELSE IF ~ValidateValue(FeatureObjects[f].validation, c.value)
         THEN [exc |-> "ValueError", value |-> c.value,
               values |-> st.values, history |-> st.history]
         ELSE [exc |-> "", value |-> c.value,
               values |-> [st.values EXCEPT ![f] = DictSet(<< >>, entity_id, c.value)],
               history |-> [st.history EXCEPT
                              ![f] = Append(@, LogEntry(f, entity_id, c.value, t))]]

\* FeatureCompute with the history entry appended before the value is validated
FeatureCompute_LogsBeforeValidating(st, f, entity_id, source_data, t) ==
    LET c == ComputeValue(f, source_data)
        logged == [st.history EXCEPT ![f] = Append(@, LogEntry(f, entity_id, c.value, t))]
    IN
    IF c.exc # ""
    THEN [exc |-> c.exc, value |-> Null, values |-> st.values, history |-> st.history]
    ELSE IF ~ValidateValue(FeatureObjects[f].validation, c.value)
         THEN [exc |-> "ValueError", value |-> c.value,
               values |-> st.values, history |-> logged]
         ELSE [exc |-> "", value |-> c.value,
               values |-> [st.values EXCEPT ![f] = DictSet(@, entity_id, c.value)],
               history |-> logged]

\* Feature.compute on the feature state st = [values, history] at time t: what it
\* raises (exc, "" for a return), the value and the feature state it leaves
FeatureCompute(st, f, entity_id, source_data, t) ==
    LET c == ComputeValue(f, source_data) IN
    IF c.exc # ""
    THEN [exc |-> c.exc, value |-> Null, values |-> st.values, history |-> st.history]
    ELSE IF ~ValidateValue(FeatureObjects[f].validation, c.value)
         THEN [exc |-> "ValueError", value |-> c.value,
               values |-> st.values, history |-> st.history]
         ELSE [exc |-> "", value |-> c.value,
               values |-> [st.values EXCEPT ![f] = DictSet(@, entity_id, c.value)],
               history |-> [st.history EXCEPT
                              ![f] = Append(@, LogEntry(f, entity_id, c.value, t))]]

\* Feature.get_value: dict.get, None when the entity has no value
GetValue(f, entity_id) ==
    IF entity_id \in DOMAIN values[f] THEN values[f][entity_id] ELSE Null

\* GetHistory with the newest entry first
GetHistory_NewestFirst(f, entity_id) ==
    LET h == SelectSeq(history[f], LAMBDA x : x.entity_id = entity_id)
    IN  [i \in 1..Len(h) |-> h[Len(h) + 1 - i]]

\* Feature.get_history
GetHistory(f, entity_id) ==
    SelectSeq(history[f], LAMBDA h : h.entity_id = entity_id)

----------------------------------------------------------------------------
(* FeatureGroup *)

\* The position of the key name in a group's features dict, 0 when it is absent
KeyIndex(fs, name) ==
    IF \E i \in 1..Len(fs) : FeatureObjects[fs[i]].metadata.name = name
    THEN CHOOSE i \in 1..Len(fs) : FeatureObjects[fs[i]].metadata.name = name
    ELSE 0

\* GroupDictSet with the feature put at the end whether or not its name is a key
GroupDictSet_AlwaysAppends(fs, f) == Append(fs, f)

\* GroupDictSet with an existing key deleted and put again at the end
GroupDictSet_MovesToEnd(fs, f) ==
    LET i == KeyIndex(fs, FeatureObjects[f].metadata.name) IN
    IF i = 0 THEN Append(fs, f)
    ELSE Append(SubSeq(fs, 1, i - 1) \o SubSeq(fs, i + 1, Len(fs)), f)

\* self.features[feature.metadata.name] = feature: a new key goes last, an
\* existing key keeps its place
GroupDictSet(fs, f) ==
    LET i == KeyIndex(fs, FeatureObjects[f].metadata.name) IN
    IF i = 0 THEN Append(fs, f) ELSE [fs EXCEPT ![i] = f]

\* GroupAddFeature with the feature put in the dict before the entities are compared
GroupAddFeature_InsertsBeforeCheck(g, fs, f) ==
    IF FeatureObjects[f].metadata.entity # GroupObjects[g].entity
    THEN [exc |-> "ValueError", features |-> GroupDictSet(fs, f)]
    ELSE [exc |-> "", features |-> GroupDictSet(fs, f)]

\* FeatureGroup.add_feature on the group's dict fs: what it raises and the dict it leaves
GroupAddFeature(g, fs, f) ==
    IF FeatureObjects[f].metadata.entity # GroupObjects[g].entity
    THEN [exc |-> "ValueError", features |-> fs]
    ELSE [exc |-> "", features |-> GroupDictSet(fs, f)]

\* The loop of FeatureGroup.compute_all from the i-th feature of fs on: each
\* feature is computed in turn, and an exception of Feature.compute is caught and
\* answered by None in results
RECURSIVE ComputeAllLoop(_, _, _, _, _, _, _)
ComputeAllLoop(st, fs, i, entity_id, source_data, t, results) ==
    IF i > Len(fs)
    THEN [exc |-> "", results |-> results, values |-> st.values, history |-> st.history]
    ELSE LET c == FeatureCompute(st, fs[i], entity_id, source_data, t)
             name == FeatureObjects[fs[i]].metadata.name
         IN  ComputeAllLoop([values |-> c.values, history |-> c.history], fs, i + 1,
                            entity_id, source_data, t,
                            Append(results,
                                   [name |-> name,
                                    value |-> IF c.exc = "" THEN c.value ELSE Null]))

\* FeatureGroup.compute_all
GroupComputeAll(st, fs, entity_id, source_data, t) ==
    ComputeAllLoop(st, fs, 1, entity_id, source_data, t, << >>)

\* FeatureGroup.get_feature_vector
GetFeatureVector(g, entity_id) ==
    [i \in 1..Len(features[g]) |->
        [name |-> FeatureObjects[features[g][i]].metadata.name,
         value |-> GetValue(features[g][i], entity_id)]]

----------------------------------------------------------------------------
(* FeatureStore *)

\* FeatureStore._generate_feature_id: the string that is hashed stands for its hash
GenerateFeatureId(f) ==
    LET md == FeatureObjects[f].metadata IN
    md.name \o ":" \o md.entity \o ":" \o md.version

\* StoreRegisterFeature with the id bound to the feature of the call, whether or
\* not the id is taken
StoreRegisterFeature_Rebinds(st, f, t) ==
    LET feature_id == GenerateFeatureId(f)
        taken == {i \in 1..Len(st.store_features) : st.store_features[i].id = feature_id}
    IN  IF taken # {}
        THEN [ret |-> FALSE,
              store_features |-> [i \in 1..Len(st.store_features) |->
                                     IF i \in taken THEN [id |-> feature_id, feature |-> f]
                                     ELSE st.store_features[i]],
              registry |-> st.registry]
        ELSE [ret |-> TRUE,
              store_features |-> Append(st.store_features, [id |-> feature_id, feature |-> f]),
              registry |-> Append(st.registry,
                                  [id |-> feature_id, metadata |-> f, registered_at |-> t])]

\* FeatureStore.register_feature on st = [store_features, registry] at time t
StoreRegisterFeature(st, f, t) ==
    LET feature_id == GenerateFeatureId(f) IN
    IF \E i \in 1..Len(st.store_features) : st.store_features[i].id = feature_id
    THEN [ret |-> FALSE, store_features |-> st.store_features, registry |-> st.registry]
    ELSE [ret |-> TRUE,
          store_features |-> Append(st.store_features, [id |-> feature_id, feature |-> f]),
          registry |-> Append(st.registry,
                              [id |-> feature_id, metadata |-> f, registered_at |-> t])]

\* The loop of register_feature_group over feature_group.features.values()
RECURSIVE RegisterAllLoop(_, _, _, _)
RegisterAllLoop(st, fs, i, t) ==
    IF i > Len(fs)
    THEN st
    ELSE LET r == StoreRegisterFeature(st, fs[i], t)
         IN  RegisterAllLoop([store_features |-> r.store_features, registry |-> r.registry],
                             fs, i + 1, t)

\* StoreRegisterFeatureGroup without the return after the warning: the group
\* takes the place of the one registered under its name
StoreRegisterFeatureGroup_NoEarlyReturn(st, g, fs, t) ==
    LET r == RegisterAllLoop([store_features |-> st.store_features,
                              registry |-> st.registry], fs, 1, t)
        taken == {i \in 1..Len(st.feature_groups) :
                     GroupObjects[st.feature_groups[i]].name = GroupObjects[g].name}
    IN  [ret |-> TRUE,
         feature_groups |-> IF taken = {} THEN Append(st.feature_groups, g)
                            ELSE [i \in 1..Len(st.feature_groups) |->
                                     IF i \in taken THEN g ELSE st.feature_groups[i]],
         store_features |-> r.store_features, registry |-> r.registry]

\* FeatureStore.register_feature_group on st = [feature_groups, store_features,
\* registry], for the group object g whose dict is fs
StoreRegisterFeatureGroup(st, g, fs, t) ==
    IF \E i \in 1..Len(st.feature_groups) :
           GroupObjects[st.feature_groups[i]].name = GroupObjects[g].name
    THEN [ret |-> FALSE, feature_groups |-> st.feature_groups,
          store_features |-> st.store_features, registry |-> st.registry]
    ELSE LET r == RegisterAllLoop([store_features |-> st.store_features,
                                   registry |-> st.registry], fs, 1, t)
         IN  [ret |-> TRUE, feature_groups |-> Append(st.feature_groups, g),
              store_features |-> r.store_features, registry |-> r.registry]

\* FeatureStore.get_feature: the first registered feature of that name and entity
GetFeature(feature_name, entity) ==
    LET hit(i) == /\ FeatureObjects[store_features[i].feature].metadata.name = feature_name
                  /\ FeatureObjects[store_features[i].feature].metadata.entity = entity
    IN  IF \E i \in 1..Len(store_features) : hit(i)
        THEN Some(store_features[
                    CHOOSE i \in 1..Len(store_features) :
                        hit(i) /\ \A j \in 1..(i - 1) : ~hit(j)].feature)
        ELSE Null

\* FeatureStore.get_feature_group
GetFeatureGroup(group_name) ==
    IF \E i \in 1..Len(feature_groups) : GroupObjects[feature_groups[i]].name = group_name
    THEN Some(CHOOSE g \in Range(feature_groups) : GroupObjects[g].name = group_name)
    ELSE Null

\* GetOnlineFeatures with a key only for the names the store resolves
GetOnlineFeatures_OmitsUnresolved(entity_id, feature_names, entity) ==
    [name \in {n \in Range(feature_names) : GetFeature(n, entity) # Null} |->
        GetValue(GetFeature(name, entity)[1], entity_id)]

\* FeatureStore.get_online_features: a dict over the requested names
GetOnlineFeatures(entity_id, feature_names, entity) ==
    [name \in Range(feature_names) |->
        LET feature == GetFeature(name, entity) IN
        IF feature # Null THEN GetValue(feature[1], entity_id) ELSE Null]

\* The filter of get_historical_features on one history entry.  A datetime is
\* truthy, so a bound is left out of the comparison only when it is None
InRange(timestamp, start_date, end_date) ==
    /\ start_date = Null \/ timestamp >= start_date[1]
    /\ end_date = Null \/ timestamp <= end_date[1]

\* FeatureStore.get_historical_features: one row for each requested entity id,
\* holding the entity id and, under each requested name the store resolves, the
\* history of that feature for the entity, filtered when a bound is given
GetHistoricalFeatures(entity_ids, feature_names, entity, start_date, end_date) ==
    [k \in 1..Len(entity_ids) |->
        [entity_id |-> entity_ids[k],
         histories |->
            [name \in {n \in Range(feature_names) : GetFeature(n, entity) # Null} |->
                LET h == GetHistory(GetFeature(name, entity)[1], entity_ids[k]) IN
                IF start_date # Null \/ end_date # Null
                THEN SelectSeq(h, LAMBDA x : InRange(x.timestamp, start_date, end_date))
                ELSE h]]]

\* FeatureStore.list_features: one dict for each feature of self.features, in
\* the order of the dict, of the entity asked for or of any when it is None
ListFeatures(entity) ==
    LET kept == SelectSeq(store_features,
                          LAMBDA x : entity = Null
                                     \/ FeatureObjects[x.feature].metadata.entity = entity[1])
    IN  [i \in 1..Len(kept) |->
            [id |-> kept[i].id,
             name |-> FeatureObjects[kept[i].feature].metadata.name,
             entity |-> FeatureObjects[kept[i].feature].metadata.entity,
             type |-> FeatureTypeArgument[kept[i].feature],
             status |-> lifecycle[kept[i].feature].status,
             version |-> FeatureObjects[kept[i].feature].metadata.version]]

\* CountBy that sets one for a key whatever was counted before
CountBy_NoIncrement(keyOf) ==
    [k \in {keyOf[store_features[i].feature] : i \in 1..Len(store_features)} |-> 1]

\* The loop of _count_by_entity, _count_by_status and _count_by_type over
\* self.features.values(): counts[key] = counts.get(key, 0) + 1
RECURSIVE CountLoop(_, _, _)
CountLoop(keyOf, i, counts) ==
    IF i > Len(store_features) THEN counts
    ELSE LET key == keyOf[store_features[i].feature] IN
         CountLoop(keyOf, i + 1,
                   DictSet(counts, key, (IF key \in DOMAIN counts THEN counts[key] ELSE 0) + 1))

\* One of the three counts, keyOf giving the key of each feature object
CountBy(keyOf) == CountLoop(keyOf, 1, << >>)

\* FeatureStore.get_statistics
GetStatistics ==
    [total_features |-> Len(store_features),
     total_feature_groups |-> Len(feature_groups),
     features_by_entity |-> CountBy([f \in FeatureIds |-> FeatureObjects[f].metadata.entity]),
     features_by_status |-> CountBy([f \in FeatureIds |-> lifecycle[f].status]),
     features_by_type |-> CountBy([f \in FeatureIds |-> FeatureTypeArgument[f]])]

----------------------------------------------------------------------------
(* The serving API, and the store calls it makes *)

\* The key of a record of the online store: "{group}:{entityId}"
OnlineKey(group_name, entity_id) == group_name \o ":" \o entity_id

\* The online store keeps every value as its string: the string of a value is
\* not the value
Encode(value) == [str |-> value]

\* computeAll as ingest runs it: the features in declaration order, the first
\* value that fails validation or the first transformation that fails aborts
\* the whole computation
RECURSIVE IngestComputeLoop(_, _, _, _)
IngestComputeLoop(fs, i, source_data, results) ==
    IF i > Len(fs) THEN [exc |-> "", results |-> results]
    ELSE LET c == ComputeValue(fs[i], source_data) IN
         IF c.exc # "" THEN [exc |-> "TransformationError", results |-> << >>]
         ELSE IF ~ValidateValue(FeatureObjects[fs[i]].validation, c.value)
              THEN [exc |-> "ValueError", results |-> << >>]
              ELSE IngestComputeLoop(fs, i + 1, source_data,
                                     DictSet(results, FeatureObjects[fs[i]].metadata.name,
                                             Encode(c.value)))

\* feature_store.ingest_features(group_name, entity_id, data) at time t, with the
\* stores reachable or not: the group is resolved, its features are computed,
\* and the record is written to the online store under its key and appended to
\* the offline store.  Nothing is written when a step fails.
IngestFeatures(group_name, entity_id, data, reachable, t) ==
    LET group == GetFeatureGroup(group_name)
        kept == [online_store |-> online_store, offline_store |-> offline_store]
    IN  IF group = Null THEN [exc |-> "UnknownGroupError"] @@ kept
        ELSE LET c == IngestComputeLoop(features[group[1]], 1, data, << >>) IN
             IF c.exc # "" THEN [exc |-> c.exc] @@ kept
             ELSE IF ~reachable THEN [exc |-> "StorageUnavailableError"] @@ kept
             ELSE [exc |-> "",
                   online_store |-> DictSet(online_store, OnlineKey(group_name, entity_id),
                                            c.results),
                   offline_store |-> Append(offline_store,
                                            [group_name |-> group_name,
                                             entity_id |-> entity_id,
                                             values |-> c.results,
                                             timestamp |-> t, date |-> t])]

\* feature_store.get_online_features(group_name, entity_id): the record under the
\* key, an empty mapping when the key is absent
GetOnlineFeaturesOfGroup(group_name, entity_id) ==
    IF OnlineKey(group_name, entity_id) \in DOMAIN online_store
    THEN online_store[OnlineKey(group_name, entity_id)]
    ELSE << >>

\* group_name in feature_store.feature_groups
GroupKnown(group_name) ==
    \E i \in 1..Len(feature_groups) : GroupObjects[feature_groups[i]].name = group_name

\* Ingest with the body looked at before the group
Ingest_BodyBeforeGroup(group_name, entity_id, data, reachable, t) ==
    LET kept == [online_store |-> online_store, offline_store |-> offline_store] IN
    IF data = << >>
    THEN [status |-> 400, called |-> FALSE, exc |-> ""] @@ kept
    ELSE IF ~GroupKnown(group_name)
         THEN [status |-> 404, called |-> FALSE, exc |-> ""] @@ kept
         ELSE LET r == IngestFeatures(group_name, entity_id, data, reachable, t) IN
              [status |-> IF r.exc = "" THEN 201 ELSE IF r.exc = "ValueError" THEN 400 ELSE 500,
               called |-> TRUE] @@ r

\* The handler of POST /ingest/<group_name>/<entity_id> with the JSON body data:
\* the status it answers with, whether it called ingest_features and what that
\* raised, and the stores as the call left them
Ingest(group_name, entity_id, data, reachable, t) ==
    LET kept == [online_store |-> online_store, offline_store |-> offline_store] IN
    IF ~GroupKnown(group_name)
    THEN [status |-> 404, called |-> FALSE, exc |-> ""] @@ kept
    ELSE IF data = << >>
         THEN [status |-> 400, called |-> FALSE, exc |-> ""] @@ kept
         ELSE LET r == IngestFeatures(group_name, entity_id, data, reachable, t) IN
              [status |-> IF r.exc = "" THEN 201 ELSE IF r.exc = "ValueError" THEN 400 ELSE 500,
               called |-> TRUE] @@ r

\* str.strip() on the pieces of the features parameter that are used
Strip(piece) ==
    CASE piece = " total_purchases" -> "total_purchases"
      [] piece = "customer_segment " -> "customer_segment"
      [] OTHER -> piece

\* The features query parameter is None when it is not in the URL, and otherwise
\* the pieces split(',') cuts its string into: the empty string is one empty
\* piece, and it is the only string that is falsy
ParameterTruthy(requested_features) ==
    requested_features # Null /\ requested_features[1] # <<"">>

\* GetFeatures without the filter
GetFeatures_NoFilter(group_name, entity_id, requested_features) ==
    IF ~GroupKnown(group_name) THEN [status |-> 404, body |-> Null]
    ELSE LET online == GetOnlineFeaturesOfGroup(group_name, entity_id) IN
         IF online = << >> THEN [status |-> 404, body |-> Null]
         ELSE [status |-> 200, body |-> Some(online)]

\* The handler of GET /features/<group_name>/<entity_id>
GetFeatures(group_name, entity_id, requested_features) ==
    IF ~GroupKnown(group_name) THEN [status |-> 404, body |-> Null]
    ELSE LET online == GetOnlineFeaturesOfGroup(group_name, entity_id) IN
         IF online = << >> THEN [status |-> 404, body |-> Null]
         ELSE IF ParameterTruthy(requested_features)
              THEN LET requested_list ==
                           [i \in 1..Len(requested_features[1]) |->
                               Strip(requested_features[1][i])]
                   IN  [status |-> 200,
                        body |-> Some([k \in DOMAIN online \cap Range(requested_list) |->
                                          online[k]])]
              ELSE [status |-> 200, body |-> Some(online)]

----------------------------------------------------------------------------
(* The calls: each action is one call, made on the state the calls before it left *)

\* The record of a call: what was called, on what, with what, and what came back
NoCall ==
    [op |-> "init", target |-> "", feature |-> "", entity |-> "", entity_id |-> "",
     source_data |-> << >>, validation |-> Null, exc |-> "", value |-> Null,
     results |-> << >>, ret |-> FALSE, status |-> 0, called |-> FALSE]

\* The threads, and a thread that is in no call
Threads == {"t1", "t2"}
Idle ==
    [op |-> "", pc |-> "idle", target |-> "", entity_id |-> "", source_data |-> << >>,
     value |-> Null, i |-> 0, size |-> 0, out |-> << >>, exc |-> "", ret |-> FALSE,
     order |-> 0]

RECURSIVE SumOver(_, _)
SumOver(S, len) ==
    IF S = {} THEN 0
    ELSE LET x == CHOOSE y \in S : TRUE IN Len(len[x]) + SumOver(S \ {x}, len)

\* the history entries of all features, and the features of all groups
TotalLog == SumOver(FeatureIds, history)
TotalGroupFeatures == SumOver(GroupIds, features)

Init ==
    /\ values = [f \in FeatureIds |-> << >>]
    /\ history = [f \in FeatureIds |-> << >>]
    /\ features = [g \in GroupIds |-> << >>]
    /\ store_features = << >>
    /\ feature_groups = << >>
    /\ registry = << >>
    /\ now = 0
    /\ lifecycle = [f \in FeatureIds |-> [status |-> ConstructedStatus[f], updated_at |-> 0]]
    /\ threads = [t \in Threads |-> Idle]
    /\ online_store = << >>
    /\ offline_store = << >>
    /\ last = NoCall

\* feature.compute(entity_id, source_data)
Compute(f, entity_id, source_data) ==
    /\ TotalLog < MaxLog
    /\ LET c == FeatureCompute([values |-> values, history |-> history],
                               f, entity_id, source_data, now)
       IN  /\ values' = c.values
           /\ history' = c.history
           /\ last' = [NoCall EXCEPT !.op = "compute", !.target = f,
                                     !.entity_id = entity_id, !.source_data = source_data,
                                     !.exc = c.exc, !.value = c.value]
    /\ UNCHANGED <<stores, features, store_features, feature_groups, registry,
                 now, lifecycle, threads>>

\* feature_group.compute_all(entity_id, source_data)
ComputeAll(g, entity_id, source_data) ==
    /\ TotalLog + Len(features[g]) <= MaxLog
    /\ LET c == GroupComputeAll([values |-> values, history |-> history],
                                features[g], entity_id, source_data, now)
       IN  /\ values' = c.values
           /\ history' = c.history
           /\ last' = [NoCall EXCEPT !.op = "compute_all", !.target = g,
                                     !.entity_id = entity_id, !.source_data = source_data,
                                     !.exc = c.exc, !.results = c.results]
    /\ UNCHANGED <<stores, features, store_features, feature_groups, registry,
                 now, lifecycle, threads>>

\* feature_group.add_feature(feature)
AddFeature(g, f) ==
    /\ LET c == GroupAddFeature(g, features[g], f)
       IN  /\ Len(c.features) > Len(features[g]) => TotalGroupFeatures < MaxGroupFeatures
           /\ features' = [features EXCEPT ![g] = c.features]
           /\ last' = [NoCall EXCEPT !.op = "add_feature", !.target = g, !.feature = f,
                                     !.exc = c.exc]
    /\ UNCHANGED <<stores, values, history, store_features, feature_groups, registry,
                 now, lifecycle, threads>>

\* store.register_feature(feature)
RegisterFeature(f) ==
    /\ LET c == StoreRegisterFeature([store_features |-> store_features,
                                      registry |-> registry], f, now)
       IN  /\ Len(c.store_features) <= MaxRegistered
           /\ store_features' = c.store_features
           /\ registry' = c.registry
           /\ last' = [NoCall EXCEPT !.op = "register_feature", !.feature = f,
                                     !.ret = c.ret]
    /\ UNCHANGED <<stores, values, history, features, feature_groups,
                 now, lifecycle, threads>>

\* store.register_feature_group(feature_group)
RegisterFeatureGroup(g) ==
    /\ LET c == StoreRegisterFeatureGroup(
                    [feature_groups |-> feature_groups, store_features |-> store_features,
                     registry |-> registry], g, features[g], now)
       IN  /\ Len(c.store_features) <= MaxRegistered
           /\ feature_groups' = c.feature_groups
           /\ store_features' = c.store_features
           /\ registry' = c.registry
           /\ last' = [NoCall EXCEPT !.op = "register_feature_group", !.target = g,
                                     !.ret = c.ret]
    /\ UNCHANGED <<stores, values, history, features,
                 now, lifecycle, threads>>

\* feature._validate_value(value), on a feature with the given validation
Validate(validation, value) ==
    /\ last' = [NoCall EXCEPT !.op = "_validate_value", !.validation = Some(validation),
                              !.value = value, !.ret = ValidateValue(validation, value)]
    /\ UNCHANGED <<stores, values, history, features, store_features, feature_groups, registry,
                 now, lifecycle, threads>>

\* store.deprecate_feature(feature_name, entity): FeatureStore has no attribute
\* of that name, so the call raises AttributeError before anything is written
DeprecateFeature(feature_name, entity) ==
    /\ last' = [NoCall EXCEPT !.op = "deprecate_feature", !.target = feature_name,
                              !.entity = entity, !.exc = "AttributeError"]
    /\ UNCHANGED <<stores, values, history, features, store_features, feature_groups, registry,
                   now, lifecycle, threads>>

\* The clock moves on between two calls
Tick ==
    /\ now < MaxClock
    /\ now' = now + 1
    /\ last' = [NoCall EXCEPT !.op = "tick"]
    /\ UNCHANGED <<stores, values, history, features, store_features, feature_groups, registry,
                   lifecycle, threads>>

----------------------------------------------------------------------------
(* The reads: each action is one call that returns what it read *)

\* CallGetValue as dict.setdefault(entity_id): an absent entity gets a None
CallGetValue_SetsDefault(f, entity_id) ==
    /\ values' = [values EXCEPT ![f] = IF entity_id \in DOMAIN @ THEN @
                                       ELSE DictSet(@, entity_id, Null)]
    /\ last' = [NoCall EXCEPT !.op = "get_value", !.target = f, !.entity_id = entity_id,
                              !.value = Some(GetValue(f, entity_id))]
    /\ UNCHANGED <<stores, history, features, store_features, feature_groups, registry, now,
                   lifecycle, threads>>

\* feature.get_value(entity_id)
CallGetValue(f, entity_id) ==
    /\ last' = [NoCall EXCEPT !.op = "get_value", !.target = f, !.entity_id = entity_id,
                              !.value = Some(GetValue(f, entity_id))]
    /\ UNCHANGED <<stores, values, history, features, store_features, feature_groups, registry,
                   now, lifecycle, threads>>

\* feature.get_history(entity_id)
CallGetHistory(f, entity_id) ==
    /\ last' = [NoCall EXCEPT !.op = "get_history", !.target = f, !.entity_id = entity_id,
                              !.value = Some(GetHistory(f, entity_id))]
    /\ UNCHANGED <<stores, values, history, features, store_features, feature_groups, registry,
                   now, lifecycle, threads>>

\* group.get_feature_vector(entity_id)
CallGetFeatureVector(g, entity_id) ==
    /\ last' = [NoCall EXCEPT !.op = "get_feature_vector", !.target = g,
                              !.entity_id = entity_id,
                              !.value = Some(GetFeatureVector(g, entity_id))]
    /\ UNCHANGED <<stores, values, history, features, store_features, feature_groups, registry,
                   now, lifecycle, threads>>

\* fs.get_feature(feature_name, entity)
CallGetFeature(feature_name, entity) ==
    /\ last' = [NoCall EXCEPT !.op = "get_feature", !.feature = feature_name,
                              !.entity = entity,
                              !.value = Some(GetFeature(feature_name, entity))]
    /\ UNCHANGED <<stores, values, history, features, store_features, feature_groups, registry,
                   now, lifecycle, threads>>

\* fs.get_feature_group(group_name)
CallGetFeatureGroup(group_name) ==
    /\ last' = [NoCall EXCEPT !.op = "get_feature_group", !.target = group_name,
                              !.value = Some(GetFeatureGroup(group_name))]
    /\ UNCHANGED <<stores, values, history, features, store_features, feature_groups, registry,
                   now, lifecycle, threads>>

\* fs.get_online_features(entity_id, feature_names, entity)
CallGetOnlineFeatures(entity_id, feature_names, entity) ==
    /\ last' = [NoCall EXCEPT !.op = "get_online_features", !.entity_id = entity_id,
                              !.entity = entity,
                              !.value = Some(GetOnlineFeatures(entity_id, feature_names,
                                                               entity))]
    /\ UNCHANGED <<stores, values, history, features, store_features, feature_groups, registry,
                   now, lifecycle, threads>>

\* fs.get_historical_features(entity_ids, feature_names, entity, start_date, end_date)
CallGetHistoricalFeatures(entity_ids, feature_names, entity, start_date, end_date) ==
    /\ last' = [NoCall EXCEPT !.op = "get_historical_features", !.entity = entity,
                              !.value = Some(GetHistoricalFeatures(entity_ids, feature_names,
                                                                   entity, start_date,
                                                                   end_date))]
    /\ UNCHANGED <<stores, values, history, features, store_features, feature_groups, registry,
                   now, lifecycle, threads>>

\* fs.list_features(entity)
CallListAll(entity) ==
    /\ last' = [NoCall EXCEPT !.op = "list_features",
                              !.entity = IF entity = Null THEN "" ELSE entity[1],
                              !.value = Some(ListFeatures(entity))]
    /\ UNCHANGED <<stores, values, history, features, store_features, feature_groups, registry,
                   now, lifecycle, threads>>

\* fs.get_statistics()
CallGetStatistics ==
    /\ last' = [NoCall EXCEPT !.op = "get_statistics", !.value = Some(GetStatistics)]
    /\ UNCHANGED <<stores, values, history, features, store_features, feature_groups, registry,
                   now, lifecycle, threads>>

----------------------------------------------------------------------------
(* The requests: each action is one request and its answer *)

\* POST /ingest/<group_name>/<entity_id> with the body data
PostIngest(group_name, entity_id, data, reachable) ==
    /\ Len(offline_store) < MaxLog
    /\ LET r == Ingest(group_name, entity_id, data, reachable, now) IN
       /\ online_store' = r.online_store
       /\ offline_store' = r.offline_store
       /\ last' = [NoCall EXCEPT !.op = "POST /ingest", !.target = group_name,
                                 !.entity_id = entity_id, !.source_data = data,
                                 !.exc = r.exc, !.status = r.status, !.called = r.called]
    /\ UNCHANGED <<values, history, features, store_features, feature_groups, registry,
                   now, lifecycle, threads>>

\* GET /features/<group_name>/<entity_id>, with or without ?features=
RequestFeatures(group_name, entity_id, requested_features) ==
    /\ LET r == GetFeatures(group_name, entity_id, requested_features) IN
       last' = [NoCall EXCEPT !.op = "GET /features", !.target = group_name,
                              !.entity_id = entity_id, !.results = requested_features,
                              !.status = r.status, !.value = r.body]
    /\ UNCHANGED <<stores, values, history, features, store_features, feature_groups,
                   registry, now, lifecycle, threads>>

----------------------------------------------------------------------------
(* The store: every call, on one group and three features *)

CoreFeatures ==
    {"total_purchases_feature", "avg_purchase_value_feature", "total_purchases_nullable"}
CoreGroups == {"customer_fg"}
CoreRecords ==
    { [total_spent |-> 6, total_purchases |-> 2],
      [total_spent |-> -4, total_purchases |-> 1] }

Next ==
    \/ \E f \in CoreFeatures, e \in EntityIds, d \in CoreRecords : Compute(f, e, d)
    \/ \E g \in CoreGroups, e \in EntityIds, d \in CoreRecords : ComputeAll(g, e, d)
    \/ \E g \in CoreGroups, f \in CoreFeatures : AddFeature(g, f)
    \/ \E f \in CoreFeatures : RegisterFeature(f)
    \/ \E g \in CoreGroups : RegisterFeatureGroup(g)

Spec == Init /\ [][Next]_vars

(* Features and one group: the calls that write values and history, on every
   customer feature and every record *)

CustomerFeatures == {f \in FeatureIds : FeatureObjects[f].metadata.entity = "customer"}

NextCompute ==
    \/ \E f \in CustomerFeatures, e \in EntityIds, d \in SourceRecords : Compute(f, e, d)
    \/ \E e \in EntityIds, d \in SourceRecords : ComputeAll("customer_fg", e, d)
    \/ \E f \in PlainFeatures : AddFeature("customer_fg", f)

SpecCompute == Init /\ [][NextCompute]_vars

(* The registry: the calls that write the groups' dicts and the store's dicts, on
   two group objects of one name and every feature *)

RegistryGroups == {"customer_fg", "customer_fg_again"}

NextRegistry ==
    \/ \E g \in RegistryGroups, f \in PlainFeatures : AddFeature(g, f)
    \/ \E f \in PlainFeatures : RegisterFeature(f)
    \/ \E g \in RegistryGroups : RegisterFeatureGroup(g)

SpecRegistry == Init /\ [][NextRegistry]_vars

(* History over time: one group of the two features of the example is built,
   registered and computed while the clock moves on *)

HistoryFeatures == {"total_purchases_feature", "avg_purchase_value_feature"}
Dates == {Null} \cup {Some(t) : t \in 0..MaxClock}

NextHistory ==
    \/ Tick
    \/ \E f \in HistoryFeatures : AddFeature("customer_fg", f)
    \/ RegisterFeatureGroup("customer_fg")
    \/ \E e \in EntityIds, d \in CoreRecords : ComputeAll("customer_fg", e, d)

SpecHistory == Init /\ [][NextHistory]_vars

(* Feature.compute by two threads: a thread can be suspended between two
   statements, and a dict assignment or a list append is one step of the
   interpreter *)

\* the thread enters compute: the value is computed and validated on the
\* thread's own frame, and an exception ends the call
CallCompute(t, f, entity_id, source_data) ==
    /\ threads[t].pc = "idle"
    /\ LET c == ComputeValue(f, source_data)
           exc == IF c.exc # "" THEN c.exc
                  ELSE IF ~ValidateValue(FeatureObjects[f].validation, c.value)
                       THEN "ValueError" ELSE ""
       IN  threads' = [threads EXCEPT ![t] =
                          [Idle EXCEPT !.op = "compute", !.target = f,
                                       !.entity_id = entity_id,
                                       !.source_data = source_data,
                                       !.value = c.value, !.exc = exc,
                                       !.pc = IF exc = "" THEN "store" ELSE "done"]]
    /\ UNCHANGED <<stores, values, history, features, store_features, feature_groups, registry,
                   now, lifecycle, last>>

\* self._values[entity_id] = value; order counts the stores made so far
StoreValue(t) ==
    /\ threads[t].pc = "store"
    /\ values' = [values EXCEPT ![threads[t].target] =
                     DictSet(@, threads[t].entity_id, threads[t].value)]
    /\ threads' = [threads EXCEPT
                      ![t].pc = "log",
                      ![t].order = 1 + Cardinality({u \in Threads : threads[u].order > 0})]
    /\ UNCHANGED <<stores, history, features, store_features, feature_groups, registry, now,
                   lifecycle, last>>

\* self._log_computation(entity_id, value), and the return
LogComputation(t) ==
    /\ threads[t].pc = "log"
    /\ history' = [history EXCEPT ![threads[t].target] =
                      Append(@, LogEntry(threads[t].target, threads[t].entity_id,
                                         threads[t].value, now))]
    /\ threads' = [threads EXCEPT ![t].pc = "done"]
    /\ UNCHANGED <<stores, values, features, store_features, feature_groups, registry, now,
                   lifecycle, last>>

NextConcurrentCompute ==
    \/ \E t \in Threads, f \in CoreFeatures, e \in EntityIds, d \in SourceRecords :
          CallCompute(t, f, e, d)
    \/ \E t \in Threads : StoreValue(t)
    \/ \E t \in Threads : LogComputation(t)

SpecConcurrentCompute == Init /\ [][NextConcurrentCompute]_vars

(* The store by two threads: register_feature_group and list_features, statement
   by statement, on groups that were built before the threads started *)

\* the thread enters register_feature_group: the test of the name
CallRegisterFeatureGroup(t, g) ==
    /\ threads[t].pc = "idle"
    /\ LET taken == \E i \in 1..Len(feature_groups) :
                        GroupObjects[feature_groups[i]].name = GroupObjects[g].name
       IN  threads' = [threads EXCEPT ![t] =
                          [Idle EXCEPT !.op = "register_feature_group", !.target = g,
                                       !.pc = IF taken THEN "done" ELSE "insert_group"]]
    /\ UNCHANGED <<stores, values, history, features, store_features, feature_groups, registry,
                   now, lifecycle, last>>

\* self.feature_groups[feature_group.name] = feature_group
InsertGroup(t) ==
    /\ threads[t].pc = "insert_group"
    /\ LET g == threads[t].target
           taken == {i \in 1..Len(feature_groups) :
                        GroupObjects[feature_groups[i]].name = GroupObjects[g].name}
       IN  feature_groups' = IF taken = {} THEN Append(feature_groups, g)
                             ELSE [i \in 1..Len(feature_groups) |->
                                      IF i \in taken THEN g ELSE feature_groups[i]]
    /\ threads' = [threads EXCEPT ![t].pc = "register", ![t].i = 1]
    /\ UNCHANGED <<stores, values, history, features, store_features, registry, now, lifecycle,
                   last>>

\* the loop over the features of the group: the return True after the last of
\* them, or register_feature up to the test of the feature id
CheckFeature(t) ==
    /\ threads[t].pc = "register"
    /\ LET fs == features[threads[t].target] IN
       threads' = [threads EXCEPT ![t] =
           IF threads[t].i > Len(fs)
           THEN [@ EXCEPT !.pc = "done", !.ret = TRUE]
           ELSE IF \E k \in 1..Len(store_features) :
                      store_features[k].id = GenerateFeatureId(fs[threads[t].i])
                THEN [@ EXCEPT !.i = @ + 1]
                ELSE [@ EXCEPT !.pc = "insert_feature"]]
    /\ UNCHANGED <<stores, values, history, features, store_features, feature_groups, registry,
                   now, lifecycle, last>>

\* self.features[feature_id] = feature
InsertFeature(t) ==
    /\ threads[t].pc = "insert_feature"
    /\ LET f == features[threads[t].target][threads[t].i]
           taken == {k \in 1..Len(store_features) :
                        store_features[k].id = GenerateFeatureId(f)}
           entry == [id |-> GenerateFeatureId(f), feature |-> f]
       IN  store_features' = IF taken = {} THEN Append(store_features, entry)
                             ELSE [k \in 1..Len(store_features) |->
                                      IF k \in taken THEN entry ELSE store_features[k]]
    /\ threads' = [threads EXCEPT ![t].pc = "insert_registry"]
    /\ UNCHANGED <<stores, values, history, features, feature_groups, registry, now, lifecycle,
                   last>>

\* self._registry[feature_id] = {...}, and the return True of register_feature
InsertRegistry(t) ==
    /\ threads[t].pc = "insert_registry"
    /\ LET f == features[threads[t].target][threads[t].i]
           taken == {k \in 1..Len(registry) : registry[k].id = GenerateFeatureId(f)}
           entry == [id |-> GenerateFeatureId(f), metadata |-> f, registered_at |-> now]
       IN  registry' = IF taken = {} THEN Append(registry, entry)
                       ELSE [k \in 1..Len(registry) |->
                                IF k \in taken THEN entry ELSE registry[k]]
    /\ threads' = [threads EXCEPT ![t].pc = "register", ![t].i = @ + 1]
    /\ UNCHANGED <<stores, values, history, features, store_features, feature_groups, now,
                   lifecycle, last>>

\* the thread enters list_features(): the iterator over self.features.items()
\* takes the size of the dict
CallListFeatures(t) ==
    /\ threads[t].pc = "idle"
    /\ threads' = [threads EXCEPT ![t] =
                      [Idle EXCEPT !.op = "list_features", !.pc = "iterate",
                                   !.size = Len(store_features)]]
    /\ UNCHANGED <<stores, values, history, features, store_features, feature_groups, registry,
                   now, lifecycle, last>>

\* one step of the iterator: RuntimeError when the dict changed size since the
\* iterator was made, the return of the list after the last item, or one more
\* feature in the list
IterateNext(t) ==
    /\ threads[t].pc = "iterate"
    /\ threads' = [threads EXCEPT ![t] =
           IF Len(store_features) # threads[t].size
           THEN [@ EXCEPT !.pc = "done", !.exc = "RuntimeError"]
           ELSE IF threads[t].i = threads[t].size
                THEN [@ EXCEPT !.pc = "done"]
                ELSE [@ EXCEPT !.i = @ + 1,
                               !.out = Append(@, store_features[threads[t].i + 1].feature)]]
    /\ UNCHANGED <<stores, values, history, features, store_features, feature_groups, registry,
                   now, lifecycle, last>>

\* a group is built before any thread has started
BuildGroup(g, f) ==
    /\ \A t \in Threads : threads[t].pc = "idle"
    /\ AddFeature(g, f)

NextConcurrentRegistry ==
    \/ \E g \in RegistryGroups, f \in HistoryFeatures : BuildGroup(g, f)
    \/ \E t \in Threads, g \in RegistryGroups : CallRegisterFeatureGroup(t, g)
    \/ \E t \in Threads : InsertGroup(t)
    \/ \E t \in Threads : CheckFeature(t)
    \/ \E t \in Threads : InsertFeature(t)
    \/ \E t \in Threads : InsertRegistry(t)
    \/ \E t \in Threads : CallListFeatures(t)
    \/ \E t \in Threads : IterateNext(t)

SpecConcurrentRegistry == Init /\ [][NextConcurrentRegistry]_vars

(* The status of the features: features are registered and deprecate_feature is
   called on the names and entities of the store while the clock moves on *)

FeatureNames == {FeatureObjects[f].metadata.name : f \in PlainFeatures}
Entities == {FeatureObjects[f].metadata.entity : f \in PlainFeatures}

NextLifecycle ==
    \/ Tick
    \/ \E f \in PlainFeatures : RegisterFeature(f)
    \/ \E name \in FeatureNames, entity \in Entities : DeprecateFeature(name, entity)

SpecLifecycle == Init /\ [][NextLifecycle]_vars

(* The feature ids: register_feature alone, on every feature object *)

NextIdentity == \E f \in FeatureIds : RegisterFeature(f)

SpecIdentity == Init /\ [][NextIdentity]_vars

(* Reads between writes: one group of the two features of the example is built,
   registered and computed for one customer, and every read is made in between *)

NextReads ==
    \/ \E f \in HistoryFeatures : AddFeature("customer_fg", f)
    \/ RegisterFeatureGroup("customer_fg")
    \/ \E d \in CoreRecords : ComputeAll("customer_fg", "CUST001", d)
    \/ \E f \in HistoryFeatures : CallGetValue(f, "CUST001")
    \/ \E f \in HistoryFeatures : CallGetHistory(f, "CUST001")
    \/ CallGetFeatureVector("customer_fg", "CUST001")
    \/ \E n \in {"total_purchases", "customer_segment"} : CallGetFeature(n, "customer")
    \/ \E n \in {"customer_features", "product_features"} : CallGetFeatureGroup(n)
    \/ CallGetOnlineFeatures("CUST001", <<"total_purchases", "avg_purchase_value">>,
                             "customer")
    \/ CallGetHistoricalFeatures(<<"CUST001">>, <<"total_purchases">>, "customer",
                                 Null, Null)
    \/ \E entity \in {Null, Some("customer")} : CallListAll(entity)
    \/ CallGetStatistics

SpecReads == Init /\ [][NextReads]_vars

(* Serving: one group of the two features of the example is built and
   registered, records are ingested through the API and read back through it *)

ServedGroups == {"customer_features", "product_features"}
Bodies ==
    { << >>,
      [total_spent |-> 6, total_purchases |-> 2],
      [total_spent |-> -4, total_purchases |-> 1],
      [total_spent |-> 6] }
FeaturesParameters ==
    { Null, Some(<<"">>), Some(<<"avg_purchase_value">>),
      Some(<<" total_purchases", "customer_segment ">>) }

NextServing ==
    \/ \E f \in HistoryFeatures : AddFeature("customer_fg", f)
    \/ RegisterFeatureGroup("customer_fg")
    \/ \E n \in ServedGroups, e \in EntityIds, d \in Bodies, reachable \in BOOLEAN :
          PostIngest(n, e, d, reachable)
    \/ \E n \in ServedGroups, e \in EntityIds, p \in FeaturesParameters :
          RequestFeatures(n, e, p)

SpecServing == Init /\ [][NextServing]_vars

(* Validation alone: _validate_value on every validation rule and value of small sets *)

MinValues == {Null, Some(0), Some(1)}
MaxValues == {Null, Some(1), Some(2)}
AllowedValues == {Null, Some({}), Some({1}), Some({0, 3})}
Values == {Null, Some(-1), Some(0), Some(1), Some(2), Some(3)}

NextValidate ==
    \E mn \in MinValues, mx \in MaxValues, al \in AllowedValues, nn \in BOOLEAN,
       v \in Values : Validate(FeatureValidation(mn, mx, al, nn), v)

SpecValidate == Init /\ [][NextValidate]_vars

----------------------------------------------------------------------------
(* Ingestion: compute_all and compute *)

\* the feature computes, on this record, a value below min_value or above max_value
OutOfBounds(f, source_data) ==
    LET c == ComputeValue(f, source_data)
        v == FeatureObjects[f].validation
    IN  /\ c.exc = ""
        /\ c.value # Null
        /\ \/ v.min_value # Null /\ c.value[1] < v.min_value[1]
           \/ v.max_value # Null /\ c.value[1] > v.max_value[1]

\* the feature's value, on this record, is computed and fails validation
FailsValidation(f, source_data) ==
    LET c == ComputeValue(f, source_data)
    IN  c.exc = "" /\ ~ValidateValue(FeatureObjects[f].validation, c.value)

\* the feature's transformation function fails on this record
FailsTransformation(f, source_data) == ComputeValue(f, source_data).exc # ""

\* C1: write atomicity.  A compute_all on a record for which some feature of the
\* group computes a value outside its bounds stores nothing: no feature gets a
\* new current value and no feature gets a new history entry.
C1_WriteAtomicity ==
    [][(/\ last'.op = "compute_all"
        /\ \E f \in Range(features[last'.target]) : OutOfBounds(f, last'.source_data))
       => values' = values /\ history' = history]_vars

\* C2: a compute_all on a record for which some feature of the group fails
\* validation raises the validation error; it returns no result map.
C2_ComputeAllRaisesValidationError ==
    (/\ last.op = "compute_all"
     /\ \E f \in Range(features[last.target]) : FailsValidation(f, last.source_data))
    => last.exc = "ValueError"

\* C3: a compute_all on a record on which the transformation function of some
\* feature of the group fails raises an error that is no validation error; it
\* returns no result map with None for that feature.
C3_ComputeAllRaisesTransformationError ==
    (/\ last.op = "compute_all"
     /\ \E f \in Range(features[last.target]) : FailsTransformation(f, last.source_data))
    => last.exc \notin {"", "ValueError"}

\* C6: cross-store consistency.  For every feature and entity id, the entity has a
\* current value exactly when it has a history entry, and the current value is
\* the value of its latest history entry.
C6_CrossStoreConsistency ==
    \A f \in FeatureIds, e \in EntityIds :
        LET h == GetHistory(f, e) IN
        /\ e \in DOMAIN values[f] <=> h # << >>
        /\ h # << >> => values[f][e] = h[Len(h)].value

\* a feature computed twice for one entity, to two values
C6_Witness ==
    /\ last.op = "compute" /\ last.exc = ""
    /\ LET h == GetHistory(last.target, last.entity_id)
       IN  Len(h) = 2 /\ h[1].value # h[2].value

C8_ComputePicksValue ==
    last.op = "compute" =>
        LET self == FeatureObjects[last.target]
            d == last.source_data
        IN  IF self.transformation # Null /\ self.transformation[1].transformation_fn # Null
            THEN LET r == ApplyFn(self.transformation[1].transformation_fn[1], d)
                 IN  IF r.exc # ""
                     THEN last.exc = r.exc
                     ELSE last.exc \in {"", "ValueError"} /\ last.value = r.value
            ELSE /\ last.exc \in {"", "ValueError"}
                 /\ last.value = IF self.metadata.name \in DOMAIN d
                                 THEN <<d[self.metadata.name]>> ELSE << >>

\* a feature whose transformation has no function, computed on a record without
\* the feature's name, returns None
C8_Witness ==
    /\ last.op = "compute" /\ last.exc = ""
    /\ last.target = "total_purchases_nullable"
    /\ "total_purchases" \notin DOMAIN last.source_data
    /\ last.value = Null

----------------------------------------------------------------------------
(* Online reads *)

\* the feature names a read asks for
RequestedNames ==
    {<< >>, <<"total_purchases">>, <<"total_purchases", "avg_purchase_value">>}

\* C4: ingest/online round trip.  After a compute_all of a registered group on a
\* record that every feature of the group computes and accepts, the online read
\* of that entity gives, for every feature of the group, the value computed.
C4_IngestOnlineRoundTrip ==
    (/\ last.op = "compute_all"
     /\ last.target \in Range(feature_groups)
     /\ \A f \in Range(features[last.target]) :
           ~FailsTransformation(f, last.source_data) /\ ~FailsValidation(f, last.source_data))
    => \A i \in 1..Len(last.results) :
           GetOnlineFeatures(last.entity_id, <<last.results[i].name>>,
                             GroupObjects[last.target].entity)[last.results[i].name]
               = last.results[i].value

\* C5: the online read of an entity id for which nothing was ever stored is a
\* mapping without keys.
C5_OnlineReadOfUnknownEntityIsEmpty ==
    \A e \in EntityIds, names \in RequestedNames, entity \in {"customer", "product"} :
        (\A f \in FeatureIds : e \notin DOMAIN values[f])
        => DOMAIN GetOnlineFeatures(e, names, entity) = {}

----------------------------------------------------------------------------
(* Validation *)

\* the value breaks the rule: None where not_null, or a value below min_value, above
\* max_value, or outside the allowed_values that are set, empty or not
Rejected(validation, value) ==
    \/ value = Null /\ validation.not_null
    \/ /\ value # Null
       /\ \/ validation.min_value # Null /\ value[1] < validation.min_value[1]
          \/ validation.max_value # Null /\ value[1] > validation.max_value[1]
          \/ validation.allowed_values # Null /\ value[1] \notin validation.allowed_values[1]

\* C9: _validate_value answers False exactly for the values that break the rule.
C9_ValidationRejectsExactly ==
    last.op = "_validate_value" =>
        (last.ret = FALSE <=> Rejected(last.validation[1], last.value))

----------------------------------------------------------------------------
(* Registration *)

\* the group objects registered under the name of g
RegisteredAs(g) ==
    {r \in Range(feature_groups) : GroupObjects[r].name = GroupObjects[g].name}

\* C10: register_feature_group with a name that is registered returns False,
\* raises nothing and leaves feature_groups, features and _registry of the store
\* as they were.
C10_RegisterGroupTwice ==
    [][(last'.op = "register_feature_group" /\ RegisteredAs(last'.target) # {})
       => /\ last'.ret = FALSE /\ last'.exc = ""
          /\ UNCHANGED <<feature_groups, store_features, registry>>]_vars

\* a second group object registered under a registered name, holding a feature
\* the store has not registered
C10_Witness ==
    /\ last.op = "register_feature_group" /\ last.ret = FALSE
    /\ last.target \notin Range(feature_groups)
    /\ RegisteredAs(last.target) # {}
    /\ \E f \in Range(features[last.target]) :
          \A i \in 1..Len(store_features) : store_features[i].id # GenerateFeatureId(f)

\* The group names and the feature ids the store holds, and what each is bound to
GroupNames(fg) == {GroupObjects[fg[i]].name : i \in 1..Len(fg)}
GroupBoundTo(fg, name) == {fg[i] : i \in {j \in 1..Len(fg) : GroupObjects[fg[j]].name = name}}
StoredIds(sf) == {sf[i].id : i \in 1..Len(sf)}
FeatureBoundTo(sf, id) == {sf[i].feature : i \in {j \in 1..Len(sf) : sf[j].id = id}}
RegistryEntriesOf(rg, id) == {rg[i] : i \in {j \in 1..Len(rg) : rg[j].id = id}}

\* C11: the registry is append-only.  Over every call, a group name that is
\* registered stays registered and bound to the same group object, a feature id
\* that is registered stays registered and bound to the same feature object and
\* the same registry entry, so the sets of names and of ids only grow.
C11_RegistryAppendOnly ==
    [][/\ \A name \in GroupNames(feature_groups) :
            /\ name \in GroupNames(feature_groups')
            /\ GroupBoundTo(feature_groups', name) = GroupBoundTo(feature_groups, name)
       /\ \A id \in StoredIds(store_features) :
            /\ id \in StoredIds(store_features')
            /\ FeatureBoundTo(store_features', id) = FeatureBoundTo(store_features, id)
            /\ RegistryEntriesOf(registry', id) = RegistryEntriesOf(registry, id)]_vars

\* C11: a group and a feature are registered, and the last call was a
\* registration under a taken name or id with another object
C11_Witness ==
    /\ feature_groups # << >>
    /\ store_features # << >>
    /\ \/ /\ last.op = "register_feature_group"
          /\ last.target \notin GroupBoundTo(feature_groups, GroupObjects[last.target].name)
       \/ /\ last.op = "register_feature"
          /\ last.feature \notin FeatureBoundTo(store_features, GenerateFeatureId(last.feature))

\* C12: add_feature with a feature of another entity than the group's raises
\* ValueError and leaves the dict of the group, and every other dict, as it was.
C12_AddFeatureRejectsOtherEntity ==
    [][(/\ last'.op = "add_feature"
        /\ FeatureObjects[last'.feature].metadata.entity # GroupObjects[last'.target].entity)
       => /\ last'.exc = "ValueError"
          /\ UNCHANGED <<features, values, history, store_features, feature_groups,
                         registry>>]_vars

\* C12: a feature of another entity was refused by a group that holds features
C12_Witness ==
    /\ last.op = "add_feature"
    /\ last.exc = "ValueError"
    /\ FeatureObjects[last.feature].metadata.entity # GroupObjects[last.target].entity
    /\ features[last.target] # << >>

\* C13: whatever add_feature calls were made, accepted or refused, every feature
\* a group holds is of the group's entity and no two of them have one name.
C13_GroupFeaturesOfOneEntityAndDistinctNames ==
    \A g \in GroupIds :
        /\ \A i \in 1..Len(features[g]) :
              FeatureObjects[features[g][i]].metadata.entity = GroupObjects[g].entity
        /\ \A i, j \in 1..Len(features[g]) :
              FeatureObjects[features[g][i]].metadata.name
                  = FeatureObjects[features[g][j]].metadata.name => i = j

\* C13: a group holds two features and the last call put a feature under a name
\* the group already had
C13_Witness ==
    /\ last.op = "add_feature"
    /\ last.exc = ""
    /\ Len(features[last.target]) = 2
    /\ features[last.target][1] = last.feature

\* C14: a group keeps its features in the order they were declared.  An accepted
\* add_feature of a new name puts the feature last, and of a name the group has
\* puts it in the place of the one that had the name; compute_all answers with one
\* key for every feature of the group, in that order.
C14_DeclarationOrder ==
    [][/\ (last'.op = "add_feature" /\ last'.exc = "")
          => LET fs == features[last'.target]
                 i == KeyIndex(fs, FeatureObjects[last'.feature].metadata.name)
             IN  /\ i = 0 => features'[last'.target] = Append(fs, last'.feature)
                 /\ i # 0 => /\ Len(features'[last'.target]) = Len(fs)
                             /\ features'[last'.target][i] = last'.feature
                             /\ \A j \in 1..Len(fs) :
                                   j # i => features'[last'.target][j] = fs[j]
       /\ last'.op = "compute_all"
          => LET fs == features[last'.target] IN
             /\ Len(last'.results) = Len(fs)
             /\ \A j \in 1..Len(fs) :
                   last'.results[j].name = FeatureObjects[fs[j]].metadata.name]_vars

\* C14: compute_all answered for a group of two features, the transformed one
\* declared first, with the keys in that order
C14_Witness ==
    /\ last.op = "compute_all"
    /\ Len(last.results) = 2
    /\ features[last.target][1] = "avg_purchase_value_feature"
    /\ features[last.target][2] = "total_purchases_v2"
    /\ last.results[1].name = "avg_purchase_value"
    /\ last.results[2].name = "total_purchases"

\* The value and the history entries a feature state holds for one entity
ValueOf(vals, f, entity_id) ==
    IF entity_id \in DOMAIN vals[f] THEN vals[f][entity_id] ELSE Null
HistoryOf(hist, f, entity_id) == SelectSeq(hist[f], LAMBDA h : h.entity_id = entity_id)

\* C19: computing the features of a group for one entity leaves, for every
\* feature of the group, the value and the history entries of every other entity
\* as they were.
C19_OtherEntitiesUntouched ==
    [][last'.op = "compute_all"
       => \A f \in Range(features[last'.target]) :
            \A b \in EntityIds \ {last'.entity_id} :
                /\ ValueOf(values', f, b) = ValueOf(values, f, b)
                /\ HistoryOf(history', f, b) = HistoryOf(history, f, b)]_vars

\* C19: compute_all wrote a value for one entity into a feature that holds a
\* value and a history entry of another
C19_Witness ==
    /\ last.op = "compute_all"
    /\ \E f \in Range(features[last.target]) :
         \E b \in EntityIds \ {last.entity_id} :
             /\ ValueOf(values, f, last.entity_id) # Null
             /\ HistoryOf(history, f, last.entity_id) # << >>
             /\ ValueOf(values, f, b) # Null
             /\ HistoryOf(history, f, b) # << >>

----------------------------------------------------------------------------
(* Historical reads *)

\* C15: historical round trip.  After a compute_all of a registered group at the
\* instant T, the historical read of that entity over every range that holds T,
\* closed at both ends and open where a bound is None, gives one row for the
\* entity, and under the name of every feature that took a value the records
\* written for the entity within the range, each once, the last of them the
\* record of this call with the value computed.
C15_HistoricalRoundTrip ==
    (last.op = "compute_all" /\ last.target \in Range(feature_groups))
    => \A i \in 1..Len(last.results), start_date \in Dates, end_date \in Dates :
          (last.results[i].value # Null /\ InRange(now, start_date, end_date))
          => LET f == features[last.target][i]
                 name == last.results[i].name
                 rows == GetHistoricalFeatures(<<last.entity_id>>, <<name>>,
                                               GroupObjects[last.target].entity,
                                               start_date, end_date)
             IN  /\ Len(rows) = 1
                 /\ rows[1].entity_id = last.entity_id
                 /\ name \in DOMAIN rows[1].histories
                 /\ rows[1].histories[name]
                      = SelectSeq(HistoryOf(history, f, last.entity_id),
                                  LAMBDA x : InRange(x.timestamp, start_date, end_date))
                 /\ rows[1].histories[name] # << >>
                 /\ rows[1].histories[name][Len(rows[1].histories[name])]
                      = LogEntry(f, last.entity_id, last.results[i].value, now)

\* C16: the historical read of an entity for which no record lies in the range
\* asked for, or for which nothing was written at all, is empty.
C16_HistoricalReadWithoutRecordsIsEmpty ==
    \A e \in EntityIds, names \in RequestedNames, start_date \in Dates, end_date \in Dates :
        (\A f \in FeatureIds : \A i \in 1..Len(history[f]) :
            history[f][i].entity_id = e
                => ~InRange(history[f][i].timestamp, start_date, end_date))
        => GetHistoricalFeatures(<<e>>, names, "customer", start_date, end_date) = << >>

----------------------------------------------------------------------------
(* Threads *)

\* C17: two computes of one feature for one entity, made by two threads and both
\* accepted, lose no write however their steps interleave: the history of the
\* entity holds two entries, one with the value of each call, and the stored
\* value is the value of the store that was made last.
C17_ConcurrentComputesLoseNoWrite ==
    \A t \in Threads : \A u \in Threads \ {t} :
        (/\ threads[t].op = "compute" /\ threads[t].pc = "done" /\ threads[t].exc = ""
         /\ threads[u].op = "compute" /\ threads[u].pc = "done" /\ threads[u].exc = ""
         /\ threads[t].target = threads[u].target
         /\ threads[t].entity_id = threads[u].entity_id)
        => LET h == HistoryOf(history, threads[t].target, threads[t].entity_id) IN
           /\ Len(h) = 2
           /\ \/ h[1].value = threads[t].value /\ h[2].value = threads[u].value
              \/ h[1].value = threads[u].value /\ h[2].value = threads[t].value
           /\ ValueOf(values, threads[t].target, threads[t].entity_id)
                = IF threads[t].order > threads[u].order
                  THEN threads[t].value ELSE threads[u].value

\* C17: both calls are over, with two values, and the call that stored last
\* logged first
C17_Witness ==
    /\ \A t \in Threads :
          threads[t].op = "compute" /\ threads[t].pc = "done" /\ threads[t].exc = ""
    /\ threads["t1"].target = threads["t2"].target
    /\ threads["t1"].entity_id = threads["t2"].entity_id
    /\ threads["t1"].value # threads["t2"].value
    /\ threads["t1"].order > threads["t2"].order
    /\ history[threads["t1"].target][1].value = threads["t1"].value

\* C18: a change of the registry excludes every read and every other change of
\* it.  No list_features sees the dict of the store change size while it iterates
\* over it, and of two register_feature_group calls under one name, made by two
\* threads, at most one returns True.
C18_RegistryMutuallyExclusive ==
    /\ \A t \in Threads :
          threads[t].op = "list_features"
          => /\ threads[t].exc # "RuntimeError"
             /\ threads[t].pc = "iterate" => Len(store_features) = threads[t].size
    /\ \A t \in Threads : \A u \in Threads \ {t} :
          (/\ threads[t].op = "register_feature_group" /\ threads[t].pc = "done"
           /\ threads[u].op = "register_feature_group" /\ threads[u].pc = "done"
           /\ GroupObjects[threads[t].target].name = GroupObjects[threads[u].target].name)
          => ~(threads[t].ret /\ threads[u].ret)

----------------------------------------------------------------------------
(* Status *)

\* C20: deprecate_feature(name, entity) leaves the feature that the store
\* resolves under the name and entity with the status DEPRECATED, whatever its
\* status was, and with updated_at at the instant of the call; when the store
\* resolves no feature the call returns without an exception and nothing changes.
C20_DeprecateFeature ==
    [][last'.op = "deprecate_feature"
       => LET named == GetFeature(last'.target, last'.entity) IN
          /\ last'.exc = ""
          /\ named = Null => UNCHANGED <<lifecycle, store_features, registry>>
          /\ named # Null
               => /\ lifecycle'[named[1]] = [status |-> "deprecated", updated_at |-> now]
                  /\ \A f \in FeatureIds \ {named[1]} : lifecycle'[f] = lifecycle[f]]_vars

\* C21: a feature constructed without a status is DRAFT before any call is made
\* on it, and after whatever calls on the features, the groups and the store no
\* feature is ARCHIVED.
C21_DraftAtFirstAndNeverArchived ==
    \A f \in FeatureIds :
        /\ lifecycle[f].status # "archived"
        /\ (last.op = "init" /\ StatusArgument[f] = Null) => lifecycle[f].status = "draft"

\* C21: a feature constructed without a status was put in a group, registered
\* with the group and computed
C21_Witness ==
    /\ last.op = "compute_all"
    /\ \E f \in Range(features[last.target]) :
          /\ StatusArgument[f] = Null
          /\ \E i \in 1..Len(store_features) : store_features[i].feature = f
          /\ history[f] # << >>
          /\ lifecycle[f].status = "draft"

\* C24: the registry covers its groups.  Every feature a registered group holds
\* is the feature get_feature returns for its name and the entity of the group.
C24_RegistryCoversGroups ==
    \A g \in Range(feature_groups) : \A f \in Range(features[g]) :
        GetFeature(FeatureObjects[f].metadata.name, GroupObjects[g].entity) = Some(f)

----------------------------------------------------------------------------
(* Values and history of a feature *)

\* C25: a compute that fails validation leaves the values and the history of the
\* feature as they were: what get_value and get_history give for the entity is
\* the same after the call as before it.
C25_FailedComputeKeepsValueAndHistory ==
    [][\A f \in FeatureIds, e \in EntityIds :
          (/\ last'.op = "compute" /\ last'.exc = "ValueError"
           /\ last'.target = f /\ last'.entity_id = e)
          => /\ GetValue(f, e)' = GetValue(f, e)
             /\ GetHistory(f, e)' = GetHistory(f, e)
             /\ UNCHANGED <<values, history>>]_vars

\* C25: a compute failed validation for an entity that has a value and a history
\* entry in the feature, computed from another record
C25_Witness ==
    /\ last.op = "compute"
    /\ last.exc = "ValueError"
    /\ GetValue(last.target, last.entity_id) # Null
    /\ GetValue(last.target, last.entity_id) # last.value
    /\ Len(GetHistory(last.target, last.entity_id)) = 1

\* C26: the history of a feature is append-only.  Over every call the entries a
\* feature has stay, in their places; a compute that returns appends one entry,
\* with the entity id and the value of the call, to the history of its feature and
\* so to the end of what get_history gives for the entity, and changes no other
\* history; a compute that raises appends nothing; compute_all appends, for every
\* feature of the group, one entry with the value it answers, or none where it
\* answers None.
C26_HistoryAppendOnly ==
    [][/\ \A f \in FeatureIds :
            /\ Len(history'[f]) >= Len(history[f])
            /\ SubSeq(history'[f], 1, Len(history[f])) = history[f]
       /\ \A f \in FeatureIds, e \in EntityIds :
            (last'.op = "compute" /\ last'.target = f /\ last'.entity_id = e)
            => /\ \A g \in FeatureIds \ {f} : history'[g] = history[g]
               /\ \A b \in EntityIds \ {e} : GetHistory(f, b)' = GetHistory(f, b)
               /\ last'.exc # "" => history'[f] = history[f]
               /\ last'.exc = ""
                    => /\ Len(history'[f]) = Len(history[f]) + 1
                       /\ history'[f][Len(history'[f])].entity_id = e
                       /\ history'[f][Len(history'[f])].value = last'.value
                       /\ GetHistory(f, e)'
                            = Append(GetHistory(f, e), history'[f][Len(history'[f])])
       /\ last'.op = "compute_all"
            => LET fs == features[last'.target] IN
               /\ \A g \in FeatureIds \ Range(fs) : history'[g] = history[g]
               /\ \A i \in 1..Len(fs) :
                     \/ /\ last'.results[i].value = Null
                        /\ history'[fs[i]] = history[fs[i]]
                     \/ /\ Len(history'[fs[i]]) = Len(history[fs[i]]) + 1
                        /\ history'[fs[i]][Len(history'[fs[i]])].entity_id
                             = last'.entity_id
                        /\ history'[fs[i]][Len(history'[fs[i]])].value
                             = last'.results[i].value]_vars

\* C26: a feature holds an entry of each entity, and get_history of the entity of
\* the last compute gives that entity's entry alone
C26_Witness ==
    /\ last.op = "compute"
    /\ last.exc = ""
    /\ Len(history[last.target]) = 2
    /\ history[last.target][1].entity_id # last.entity_id
    /\ GetHistory(last.target, last.entity_id) = <<history[last.target][2]>>

\* the features registered with the name, entity and version of f
SameTriple(sf, f) ==
    {sf[i].feature : i \in {j \in 1..Len(sf) :
        /\ FeatureObjects[sf[j].feature].metadata.name = FeatureObjects[f].metadata.name
        /\ FeatureObjects[sf[j].feature].metadata.entity = FeatureObjects[f].metadata.entity
        /\ FeatureObjects[sf[j].feature].metadata.version
             = FeatureObjects[f].metadata.version}}

\* C27: register_feature knows a feature by its name, entity and version.  When a
\* feature of the same three is registered the call returns False and leaves the
\* features and the registry of the store as they were; otherwise it returns True
\* and the feature and its record are added at the end.  After every call the
\* features and the registry have the same keys.
C27_RegisterFeatureByTriple ==
    [][/\ last'.op = "register_feature"
            => IF SameTriple(store_features, last'.feature) # {}
               THEN /\ last'.ret = FALSE
                    /\ UNCHANGED <<store_features, registry>>
               ELSE /\ last'.ret = TRUE
                    /\ Len(store_features') = Len(store_features) + 1
                    /\ SubSeq(store_features', 1, Len(store_features)) = store_features
                    /\ store_features'[Len(store_features')].feature = last'.feature
                    /\ Len(registry') = Len(registry) + 1
                    /\ SubSeq(registry', 1, Len(registry)) = registry
                    /\ registry'[Len(registry')].metadata = last'.feature
       /\ StoredIds(store_features') = {registry'[i].id : i \in 1..Len(registry')}]_vars

----------------------------------------------------------------------------
(* The online read, name by name *)

\* a feature of that name and entity is in the registry
RegisteredName(name, entity) ==
    \E i \in 1..Len(registry) :
        /\ FeatureObjects[registry[i].metadata].metadata.name = name
        /\ FeatureObjects[registry[i].metadata].metadata.entity = entity

----------------------------------------------------------------------------
(* Statistics *)

\* the sum of the counts of a dict of counts
RECURSIVE SumCounts(_)
SumCounts(counts) ==
    IF DOMAIN counts = {} THEN 0
    ELSE LET k == CHOOSE x \in DOMAIN counts : TRUE IN
         counts[k] + SumCounts([x \in DOMAIN counts \ {k} |-> counts[x]])

\* C29: get_statistics agrees with the registry.  total_features is the number of
\* registry entries, total_feature_groups the number of registered groups, and
\* the counts by entity, by status and by type each add up to total_features.
C29_StatisticsConsistent ==
    LET s == GetStatistics IN
    /\ s.total_features = Len(registry)
    /\ s.total_features = Cardinality({registry[i].id : i \in 1..Len(registry)})
    /\ s.total_feature_groups = Cardinality(Range(feature_groups))
    /\ SumCounts(s.features_by_entity) = s.total_features
    /\ SumCounts(s.features_by_status) = s.total_features
    /\ SumCounts(s.features_by_type) = s.total_features

\* three features registered, two of one entity, of two statuses and of two
\* types, and a group registered: every count holds a key counted twice
C29_Witness ==
    LET s == GetStatistics IN
    /\ s.total_features = 3
    /\ s.total_feature_groups >= 1
    /\ s.features_by_entity = [k \in {"customer", "product"} |->
                                  IF k = "customer" THEN 2 ELSE 1]
    /\ Cardinality(DOMAIN s.features_by_status) = 2
    /\ Cardinality(DOMAIN s.features_by_type) = 2

----------------------------------------------------------------------------
(* Reads *)

ReadOperations ==
    {"get_feature", "get_feature_group", "get_online_features", "get_historical_features",
     "list_features", "get_statistics", "get_value", "get_history", "get_feature_vector"}

\* C30: the reads change no state.  A step that is a call of get_feature,
\* get_feature_group, get_online_features, get_historical_features, list_features,
\* get_statistics, get_value, get_history or get_feature_vector leaves the
\* registry, the store's features and groups, the features of every group and
\* the values and the history of every feature as they were.
C30_ReadsChangeNoState ==
    [][last'.op \in ReadOperations
         => UNCHANGED <<registry, store_features, feature_groups, features, values,
                        history, lifecycle>>]_vars

\* get_value of a feature for an entity nothing was computed for, in a store
\* that holds a registered group: the read that a setdefault would write on
C30_Witness ==
    /\ last.op = "get_value"
    /\ last.value = Some(Null)
    /\ last.entity_id \notin DOMAIN values[last.target]
    /\ registry # << >>

----------------------------------------------------------------------------
(* The serving API *)

Projection(online, filtered, requested_features) ==
    IF filtered
    THEN [k \in {x \in DOMAIN online :
                    \E i \in 1..Len(requested_features[1]) :
                        Strip(requested_features[1][i]) = x} |-> online[k]]
    ELSE online

\* the answer of the last GET /features agrees with the online record, the filter
\* being applied when filtered says so
AnswersWith(filtered) ==
    LET online == GetOnlineFeaturesOfGroup(last.target, last.entity_id) IN
    IF GetFeatureGroup(last.target) = Null \/ online = << >>
    THEN last.status = 404
    ELSE /\ last.status = 200
         /\ last.value = Some(Projection(online, filtered, last.results))

====
